---- MODULE Spec2Model ----
(***************************************************************************)
(* Model of src/app.py: the text chunker (chunk_text), the model client    *)
(* (inference) and the two entry points generate_summary and               *)
(* generate_faq_smart.                                                     *)
(*                                                                         *)
(* Strings.  A Python str is a sequence of runs <<w, n>>: the piece w      *)
(* written n times (n >= 1).  Every string the code inspects character by  *)
(* character (the input text, its sentences and chunks, the payloads of    *)
(* the model server) is made of one-character pieces, so it is the         *)
(* run-length encoding of the str: "aaa. b" is                             *)
(* << <<"a",3>>, <<".",1>>, <<" ",1>>, <<"b",1>> >>.  The fixed wording of *)
(* prompts and error messages is kept as whole pieces.  Adjacent runs of   *)
(* the same piece are always merged, so two strings built from characters  *)
(* are equal as Python strs exactly when they are equal values here.       *)
(***************************************************************************)
EXTENDS Integers, Sequences, FiniteSets, TLC

\* U+274C, the cross mark that opens every error string of app.py.  The
\* module syntax is ASCII only, so the one character is written "#"; no other
\* string of the model contains "#".
CrossMark == "#"

\* Characters removed by str.strip() that occur in the model.
Whitespace == {" ", "\n", "\t"}

\* The value of a Python name holding None (no str has a run of length 0).
None == << <<"None", 0>> >>

\* w * n
Run(w, n) == IF n = 0 THEN <<>> ELSE << <<w, n>> >>

\* A literal of the source, kept as one piece.
Lit(w) == Run(w, 1)

\* s + t
Cat(s, t) ==
  IF s = <<>> THEN t
  ELSE IF t = <<>> THEN s
  ELSE IF s[Len(s)][1] = t[1][1]
       THEN SubSeq(s, 1, Len(s) - 1)
              \o << <<t[1][1], s[Len(s)][2] + t[1][2]>> >>
              \o Tail(t)
       ELSE s \o t

\* len(s)
RECURSIVE StrLen(_)
StrLen(s) ==
  IF s = <<>> THEN 0 ELSE Len(s[1][1]) * s[1][2] + StrLen(Tail(s))

\* s.replace(old, new) for one-character old and new
RECURSIVE Replace(_, _, _)
Replace(s, old, new) ==
  IF s = <<>> THEN <<>>
  ELSE Cat(Run(IF s[1][1] = old THEN new ELSE s[1][1], s[1][2]),
           Replace(Tail(s), old, new))

\* s.split(sep) for a one-character sep: the loop over the runs of s, cur
\* the piece being collected and out the pieces already closed.  A run of n
\* separators closes cur and then n - 1 empty pieces.
RECURSIVE SplitLoop(_, _, _, _)
SplitLoop(s, sep, cur, out) ==
  IF s = <<>> THEN Append(out, cur)
  ELSE IF s[1][1] = sep
       THEN SplitLoop(Tail(s), sep, <<>>,
                      Append(out, cur) \o [k \in 1..(s[1][2] - 1) |-> <<>>])
       ELSE SplitLoop(Tail(s), sep, Cat(cur, <<s[1]>>), out)

Split(s, sep) == SplitLoop(s, sep, <<>>, <<>>)

\* s.lstrip(), s.rstrip(), s.strip()
RECURSIVE LStrip(_)
LStrip(s) ==
  IF s # <<>> /\ s[1][1] \in Whitespace THEN LStrip(Tail(s)) ELSE s

RECURSIVE RStrip(_)
RStrip(s) ==
  IF s # <<>> /\ s[Len(s)][1] \in Whitespace
  THEN RStrip(SubSeq(s, 1, Len(s) - 1)) ELSE s

Strip(s) == RStrip(LStrip(s))

\* s.startswith(c) for a one-character c
StartsWith(s, c) == s # <<>> /\ s[1][1] = c

\* s[:k] for a string of one-character pieces
RECURSIVE Take(_, _)
Take(s, k) ==
  IF s = <<>> \/ k <= 0 THEN <<>>
  ELSE IF s[1][2] >= k THEN << <<s[1][1], k>> >>
       ELSE <<s[1]>> \o Take(Tail(s), k - s[1][2])

\* sep.join(parts)
RECURSIVE Join(_, _)
Join(sep, parts) ==
  IF parts = <<>> THEN <<>>
  ELSE IF Len(parts) = 1 THEN parts[1]
       ELSE Cat(Cat(parts[1], sep), Join(sep, Tail(parts)))

\* str(n) for n >= 0
Digit(d) ==
  CASE d = 0 -> "0" [] d = 1 -> "1" [] d = 2 -> "2" [] d = 3 -> "3"
    [] d = 4 -> "4" [] d = 5 -> "5" [] d = 6 -> "6" [] d = 7 -> "7"
    [] d = 8 -> "8" [] d = 9 -> "9"

RECURSIVE IntStr(_)
IntStr(n) ==
  IF n < 10 THEN Run(Digit(n), 1)
  ELSE Cat(IntStr(n \div 10), Run(Digit(n % 10), 1))

\* The str with the characters cs, in order.
RECURSIVE FromChars(_)
FromChars(cs) ==
  IF cs = <<>> THEN <<>> ELSE Cat(Run(cs[1], 1), FromChars(Tail(cs)))

(***************************************************************************)
(* chunk_text (src/app.py:120-141)                                         *)
(***************************************************************************)

\* Mutant of chunk_loop: "<=" in place of "<" in the size test.
RECURSIVE chunk_loop_le(_, _, _, _, _)
chunk_loop_le(sentences, k, current_chunk, chunks, max_chars) ==
  IF k > Len(sentences)
  THEN IF current_chunk # <<>>
       THEN Append(chunks, Strip(current_chunk))
       ELSE chunks
  ELSE LET sentence == sentences[k] IN
       IF StrLen(current_chunk) + StrLen(sentence) <= max_chars
       THEN chunk_loop_le(sentences, k + 1,
                          Cat(Cat(current_chunk, sentence), Lit(".")),
                          chunks, max_chars)
       ELSE chunk_loop_le(sentences, k + 1,
                          Cat(sentence, Lit(".")),
                          IF current_chunk # <<>>
                          THEN Append(chunks, Strip(current_chunk))
                          ELSE chunks,
                          max_chars)

\* Mutant of chunk_loop: the buffer left after the loop is not flushed.
RECURSIVE chunk_loop_noflush(_, _, _, _, _)
chunk_loop_noflush(sentences, k, current_chunk, chunks, max_chars) ==
  IF k > Len(sentences)
  THEN chunks
  ELSE LET sentence == sentences[k] IN
       IF StrLen(current_chunk) + StrLen(sentence) < max_chars
       THEN chunk_loop_noflush(sentences, k + 1,
                               Cat(Cat(current_chunk, sentence), Lit(".")),
                               chunks, max_chars)
       ELSE chunk_loop_noflush(sentences, k + 1,
                               Cat(sentence, Lit(".")),
                               IF current_chunk # <<>>
                               THEN Append(chunks, Strip(current_chunk))
                               ELSE chunks,
                               max_chars)

\* Mutant of chunk_loop: the flush inside the loop without the test
\* "if current_chunk:".
RECURSIVE chunk_loop_unguarded(_, _, _, _, _)
chunk_loop_unguarded(sentences, k, current_chunk, chunks, max_chars) ==
  IF k > Len(sentences)
  THEN IF current_chunk # <<>>
       THEN Append(chunks, Strip(current_chunk))
       ELSE chunks
  ELSE LET sentence == sentences[k] IN
       IF StrLen(current_chunk) + StrLen(sentence) < max_chars
       THEN chunk_loop_unguarded(sentences, k + 1,
                                 Cat(Cat(current_chunk, sentence), Lit(".")),
                                 chunks, max_chars)
       ELSE chunk_loop_unguarded(sentences, k + 1,
                                 Cat(sentence, Lit(".")),
                                 Append(chunks, Strip(current_chunk)),
                                 max_chars)

\* The for loop of chunk_text from sentence k on, and the flush after it.
RECURSIVE chunk_loop(_, _, _, _, _)
chunk_loop(sentences, k, current_chunk, chunks, max_chars) ==
  IF k > Len(sentences)
  THEN IF current_chunk # <<>>
       THEN Append(chunks, Strip(current_chunk))
       ELSE chunks
  ELSE LET sentence == sentences[k] IN
       IF StrLen(current_chunk) + StrLen(sentence) < max_chars
       THEN chunk_loop(sentences, k + 1,
                       Cat(Cat(current_chunk, sentence), Lit(".")),
                       chunks, max_chars)
       ELSE chunk_loop(sentences, k + 1,
                       Cat(sentence, Lit(".")),
                       IF current_chunk # <<>>
                       THEN Append(chunks, Strip(current_chunk))
                       ELSE chunks,
                       max_chars)

\* text.replace('!', '.').replace('?', '.').split('.')
sentences_of(text) == Split(Replace(Replace(text, "!", "."), "?", "."), ".")

chunk_text(text, max_chars) ==
  IF StrLen(text) <= max_chars
  THEN <<text>>
  ELSE chunk_loop(sentences_of(text), 1, <<>>, <<>>, max_chars)

(***************************************************************************)
(* Program constants                                                       *)
(***************************************************************************)
FaqThreshold == 3000      \* generate_faq_smart: len(text) > 3000
FaqChunkChars == 2500     \* generate_faq_smart: chunk_text(text, max_chars=2500)
MinQuestionsPerChunk == 2 \* generate_faq_smart: max(2, ...)
MaxFaqChars == 10000      \* generate_faq_smart: combined_faq[:min(len, 10000)]
InferenceTimeout == 1000  \* timeout=1000 in every call of inference
MinQuestions == 3         \* the slider of the page: min_value=3
MaxQuestions == 10        \* the slider of the page: max_value=10
NotFound == 404           \* response.status_code == 404

MODEL_SERVER_URL == Lit("http://localhost:11434")

length_instructions ==
  [short |-> "in 2-3 sentences",
   medium |-> "in 1 paragraph (4-6 sentences)",
   long |-> "in 2-3 paragraphs with key details"]

(***************************************************************************)
(* Bounds of the inputs                                                    *)
(***************************************************************************)
MaxSentences == 7      \* sentences of an input text of the entry points
SentenceChars == 1200  \* characters of each of these sentences
BigPayloadChars == 10001 \* characters of the long payload of the server
MaxLen == 5            \* characters of a text given to chunk_text alone
MaxChunkChars == 4     \* largest max_chars given to chunk_text alone

(***************************************************************************)
(* The model server and the requests library, as inference sees them       *)
(***************************************************************************)

\* A parsed JSON body by the keys inference looks at:
\*   chat            {"message": {"content": text, ...}, ...}
\*   chat_nocontent  {"message": {...}} without "content"
\*   chat_notdict    {"message": "..."}: the message is not an object
\*   generate        {"response": text, ...}
\*   other           an object with neither "message" nor "response"
\*   invalid         not JSON: response.json() raises
Body(shape, t) == [shape |-> shape, text |-> t]

ShortPayload == FromChars(<<"Q", "A">>)
BigPayload == Run("y", BigPayloadChars)
MarkedPayload == Cat(Run(CrossMark, 1), Run("z", 1))
InnerMarkedPayload == Cat(Run("z", 1), Run(CrossMark, 1))
Payloads == {ShortPayload, BigPayload, MarkedPayload, InnerMarkedPayload}

Bodies ==
  {Body("chat", t) : t \in Payloads}
    \cup {Body("generate", ShortPayload), Body("chat_nocontent", <<>>),
          Body("chat_notdict", <<>>), Body("other", <<>>),
          Body("invalid", <<>>)}

\* What requests.post gives: an exception of class exc with str(e) = detail,
\* or (exc = "") a response with a status, a reason phrase and a body.
Raised(exc, detail) ==
  [exc |-> exc, detail |-> detail, status |-> 0, body |-> Body("invalid", <<>>)]
Replied(status, reason, body) ==
  [exc |-> "", detail |-> reason, status |-> status, body |-> body]

\* requests.exceptions: ConnectTimeout(ConnectionError, Timeout),
\* ReadTimeout(Timeout); TooManyRedirects is neither.
ConnectionErrors == {"ConnectionError", "ConnectTimeout"}
Timeouts == {"ConnectTimeout", "ReadTimeout"}

\* 200 OK; 300: a 3xx answer without a Location header, which requests hands
\* back instead of following; 404; 500.
Outcomes ==
  {Raised("ConnectionError", Lit("Connection refused")),
   Raised("ConnectTimeout", Lit("Connection to localhost timed out.")),
   Raised("ReadTimeout", Lit("Read timed out.")),
   Raised("TooManyRedirects", Lit("Exceeded 30 redirects."))}
    \cup {Replied(200, Lit("OK"), b) : b \in Bodies}
    \cup {Replied(300, Lit("Multiple Choices"), b) : b \in Bodies}
    \cup {Replied(404, Lit("Not Found"), Body("other", <<>>)),
          Replied(500, Lit("Internal Server Error"), Body("other", <<>>))}

\* Response.raise_for_status(): HTTPError exactly for 400 <= status < 600.
raises_for_status(status) == 400 <= status /\ status < 600

\* str(e) of the HTTPError of raise_for_status
http_error_str(o, url) ==
  Join(<<>>, <<IntStr(o.status),
               Lit(IF o.status < 500 THEN " Client Error: "
                                      ELSE " Server Error: "),
               o.detail, Lit(" for url: "), url>>)

(***************************************************************************)
(* State                                                                   *)
(***************************************************************************)
\* The same request is run twice against the same answers of the server:
\* once with a progress sink (process_placeholder given) and once without.
Runs == {"sink", "no_sink"}

VARIABLES
  op,              \* "summary" | "faq": the entry point; "chunk": chunk_text alone
  text,            \* the input text
  num_questions,   \* argument of generate_faq_smart
  summary_length,  \* argument of generate_summary
  model_name,      \* the model chosen on the page
  max_chars,       \* argument of chunk_text when it is called alone
  chunked,         \* what chunk_text returned when called alone, None before
  run              \* run[r]: the frame of the entry point in run r

vars == <<op, text, num_questions, summary_length, model_name, max_chars,
          chunked, run>>

inputs == <<op, text, num_questions, summary_length, model_name, max_chars,
            chunked>>

\* The frame of one run before the entry point is called.
\*   pc      "start", "steps" (in a time.sleep of show_processing_steps),
\*           "chat" (blocked in the POST to /api/chat), "generate"
\*           (blocked in the POST to /api/generate), "done" (returned)
\*   step    how many of the steps show_processing_steps has displayed
\*   path    where inference returns to: "summary", "single", "chunked"
\*   chunks, questions_per_chunk, i, all_faqs   locals of generate_faq_smart
\*   placeholder, response    locals of inference (its prompt and timeout
\*           are in the last entry of calls)
\*   net     the URLs of the requests sent and not yet answered
\*   result  the value the entry point returned
\*   calls   every call of inference so far, posts and replies the requests
\*           and the outcomes of the current call, rets the value every
\*           finished call returned (failure: returned by an except clause),
\*           sink_log what the sink was told
Frame(sink) ==
  [sink |-> sink, pc |-> "start", path |-> "none",
   chunks |-> <<>>, questions_per_chunk |-> 0, i |-> 0, all_faqs |-> <<>>,
   placeholder |-> FALSE, step |-> 0, response |-> <<>>,
   net |-> {}, result |-> None,
   calls |-> <<>>, posts |-> <<>>, replies |-> <<>>, rets |-> <<>>,
   sink_log |-> <<>>]

(***************************************************************************)
(* inference (src/app.py:143-199)                                          *)
(***************************************************************************)
chat_request(model, prompt, timeout) ==
  [url |-> Cat(MODEL_SERVER_URL, Lit("/api/chat")),
   json |-> [model |-> model,
             messages |-> <<[role |-> "user", content |-> prompt]>>,
             stream |-> FALSE],
   timeout |-> timeout]

generate_request(model, prompt, timeout) ==
  [url |-> Cat(MODEL_SERVER_URL, Lit("/api/generate")),
   json |-> [model |-> model, prompt |-> prompt, stream |-> FALSE],
   timeout |-> timeout]

\* The strings of the except clauses.
error_not_running ==
  Cat(Run(CrossMark, 1),
      Lit(" Error: Model server is not running. Please start the model server."))

error_timed_out(timeout) ==
  Join(<<>>, <<Run(CrossMark, 1),
               Lit(" Error: Model inference timed out after "),
               IntStr(timeout),
               Lit(" seconds. Try reducing text length or number of questions.")>>)

error_model_not_found(model) ==
  Join(<<>>, <<Run(CrossMark, 1), Lit(" Error: Model '"), model,
               Lit("' not found in model repository.")>>)

error_generic(detail) ==
  Join(<<>>, <<Run(CrossMark, 1), Lit(" Error: "), detail>>)

\* A value inference returns: failure says it comes from an except clause.
Ret(value, failure) == [value |-> value, failure |-> failure]

\* Mutant of is_not_found: the fallback taken on every error status.
is_not_found_any_error(status) == status >= 400

\* response.status_code == 404 after the POST to /api/chat
is_not_found(status) == status = NotFound

\* The except clauses for an exception e raised by requests.post, in the
\* order of the source: ConnectionError, Timeout, HTTPError, Exception.
inference_except(o, timeout) ==
  IF o.exc \in ConnectionErrors THEN Ret(error_not_running, TRUE)
  ELSE IF o.exc \in Timeouts THEN Ret(error_timed_out(timeout), TRUE)
  ELSE Ret(error_generic(o.detail), TRUE)

\* 'message' in result
has_message(body) == body.shape \in {"chat", "chat_nocontent", "chat_notdict"}

\* From response.raise_for_status() to the return, for the response o of
\* the request req.
inference_finish(o, req, model) ==
  IF raises_for_status(o.status)
  THEN IF o.status = NotFound
       THEN Ret(error_model_not_found(model), TRUE)
       ELSE Ret(error_generic(http_error_str(o, req.url)), TRUE)
  ELSE IF o.body.shape = "invalid"
  THEN Ret(error_generic(Lit("Expecting value: line 1 column 1 (char 0)")), TRUE)
  ELSE IF has_message(o.body)
  THEN IF o.body.shape = "chat_notdict"
       THEN Ret(error_generic(Lit("'str' object has no attribute 'get'")), TRUE)
       ELSE Ret(o.body.text, FALSE)
  ELSE Ret(o.body.text, FALSE)

\* A notification of the sink: what it is told, and the number of the call of
\* inference it comes before.
Notified(f, event) ==
  IF f.sink
  THEN [f EXCEPT !.sink_log = Append(@, [event |-> event,
                                         call |-> Len(f.calls) + 1])]
  ELSE f

\* The titles of the steps show_processing_steps displays, without their
\* pictographs.
steps ==
  <<"Tokenization", "Text Analysis", "Preprocessing", "Stemming",
    "Neural Network", "Post-processing">>

\* One turn of the loop of show_processing_steps down to its time.sleep:
\* step_placeholder.markdown for the next step, inside the current call of
\* inference.
show_processing_step(f) ==
  [f EXCEPT !.pc = "steps", !.step = @ + 1,
            !.sink_log = Append(@, [event |-> steps[f.step + 1],
                                    call |-> Len(f.calls)])]

\* inference from the building of the payload to the POST to /api/chat,
\* where it blocks.
inference_post(f) ==
  LET call == f.calls[Len(f.calls)]
      req == chat_request(call.model, call.prompt, call.timeout)
  IN [f EXCEPT !.pc = "chat", !.net = @ \cup {req.url}, !.posts = <<req>>]

\* A time.sleep of show_processing_steps returns: the next step is
\* displayed, or after the last one inference goes on to the POST.
on_sleep_over(f) ==
  IF f.step < Len(steps) THEN show_processing_step(f) ELSE inference_post(f)

\* inference(prompt, model_name, process_placeholder, timeout) from its
\* first line to where it first waits: the first time.sleep of
\* show_processing_steps when it has a placeholder, the POST to /api/chat
\* when it has none.
inference(f, prompt, placeholder, timeout, path) ==
  LET g == [f EXCEPT !.path = path, !.placeholder = placeholder,
                     !.step = 0, !.response = <<>>,
                     !.calls = Append(@, [prompt |-> prompt,
                                          model |-> model_name,
                                          timeout |-> timeout]),
                     !.posts = <<>>, !.replies = <<>>]
  IN IF placeholder THEN show_processing_step(g) ELSE inference_post(g)

(***************************************************************************)
(* generate_faq_smart (src/app.py:289-339)                                 *)
(***************************************************************************)
Max(a, b) == IF a >= b THEN a ELSE b
Min(a, b) == IF a <= b THEN a ELSE b

\* Mutant of questions_per_chunk_of: the division rounded up.
questions_per_chunk_ceil(n, chunk_count) ==
  Max(MinQuestionsPerChunk, (n + chunk_count - 1) \div chunk_count)

\* max(2, num_questions // len(chunks))
questions_per_chunk_of(n, chunk_count) ==
  Max(MinQuestionsPerChunk, n \div chunk_count)

faq_section_prompt(questions_per_chunk, chunk) ==
  Join(<<>>, <<Lit("Based on the following text section, generate "),
               IntStr(questions_per_chunk),
               Lit(" frequently asked questions (FAQ) with their answers. Format each FAQ as:\n\nQ: [Question]\nA: [Answer]\n\nText: "),
               chunk,
               Lit("\n\nFAQ:")>>)

faq_prompt(t, n) ==
  Join(<<>>, <<Lit("Based on the following text, generate "),
               IntStr(n),
               Lit(" frequently asked questions (FAQ) with their answers. Format each FAQ as:\n\nQ: [Question]\nA: [Answer]\n\nText: "),
               t,
               Lit("\n\nFAQ:")>>)

\* Mutant of combine_faqs: the outputs joined by a single newline.
combine_faqs_newline(all_faqs) == Join(Run("\n", 1), all_faqs)

\* "\n\n".join(all_faqs)
combine_faqs(all_faqs) == Join(Run("\n", 2), all_faqs)

\* Mutant of limit_total_length: the slice left out.
limit_total_length_off(combined_faq) == combined_faq

\* combined_faq[:min(len(combined_faq), 10000)]
limit_total_length(combined_faq) ==
  Take(combined_faq, Min(StrLen(combined_faq), MaxFaqChars))

\* Mutant of is_error: the cross mark looked for anywhere in faq.
is_error_anywhere(faq) == \E k \in 1..Len(faq) : faq[k][1] = CrossMark

\* faq.startswith(the cross mark)
is_error(faq) == StartsWith(faq, CrossMark)

\* The body of the for loop for chunk i (counted from 0) down to the call of
\* inference.
faq_section(f) ==
  LET g == Notified(f, "info")
  IN inference(g, faq_section_prompt(f.questions_per_chunk, f.chunks[f.i + 1]),
               FALSE, InferenceTimeout, "chunked")

\* After the loop: empty the sink, combine, limit, return.
faq_combine(f) ==
  LET g == Notified(f, "empty")
  IN [g EXCEPT !.pc = "done",
               !.result = limit_total_length(combine_faqs(f.all_faqs))]

\* The for loop from the top of the iteration for chunk i.
faq_loop(f) == IF f.i < Len(f.chunks) THEN faq_section(f) ELSE faq_combine(f)

\* Mutant of faq_collect: "continue" in place of the return of the error.
faq_collect_skip(f, faq) ==
  IF ~is_error(faq)
  THEN faq_loop([f EXCEPT !.all_faqs = Append(@, faq), !.i = @ + 1])
  ELSE faq_loop([f EXCEPT !.i = @ + 1])

\* Mutant of faq_collect: the return of the error indented into
\* "if process_placeholder:", so that without a sink the loop goes on.
faq_collect_return_in_if(f, faq) ==
  IF ~is_error(faq)
  THEN faq_loop([f EXCEPT !.all_faqs = Append(@, faq), !.i = @ + 1])
  ELSE IF f.sink
       THEN LET g == Notified(f, "empty")
            IN [g EXCEPT !.pc = "done", !.result = faq]
       ELSE faq_loop([f EXCEPT !.i = @ + 1])

\* The rest of the iteration once inference has returned faq.
faq_collect(f, faq) ==
  IF ~is_error(faq)
  THEN faq_loop([f EXCEPT !.all_faqs = Append(@, faq), !.i = @ + 1])
  ELSE LET g == Notified(f, "empty")
       IN [g EXCEPT !.pc = "done", !.result = faq]

generate_faq_smart(f) ==
  IF StrLen(text) > FaqThreshold
  THEN LET chunks == chunk_text(text, FaqChunkChars)
       IN faq_loop([f EXCEPT
                      !.path = "chunked", !.chunks = chunks,
                      !.questions_per_chunk =
                         questions_per_chunk_of(num_questions, Len(chunks)),
                      !.all_faqs = <<>>, !.i = 0])
  ELSE inference(f, faq_prompt(text, num_questions), f.sink,
                 InferenceTimeout, "single")

(***************************************************************************)
(* generate_summary (src/app.py:273-287)                                   *)
(***************************************************************************)
\* Mutant of summary_prompt: the text cut to the FAQ threshold.
summary_prompt_cut(t, length) ==
  Join(<<>>, <<Lit("Please provide a clear and concise summary of the following text "),
               Lit(length_instructions[length]),
               Lit(":\n\nText: "),
               Take(t, FaqThreshold),
               Lit("\n\nSummary:")>>)

summary_prompt(t, length) ==
  Join(<<>>, <<Lit("Please provide a clear and concise summary of the following text "),
               Lit(length_instructions[length]),
               Lit(":\n\nText: "),
               t,
               Lit("\n\nSummary:")>>)

generate_summary(f) ==
  inference(f, summary_prompt(text, summary_length), f.sink,
            InferenceTimeout, "summary")

(***************************************************************************)
(* inference, from the answer to a POST to its return into the caller      *)
(***************************************************************************)
\* inference returns ret; its caller goes on.
inference_return(f, ret) ==
  LET g == [f EXCEPT !.rets = Append(@, ret)]
  IN IF f.path = "chunked"
     THEN faq_collect(g, ret.value)
     ELSE [g EXCEPT !.pc = "done", !.result = ret.value]

\* requests.post(.../api/chat) ends with outcome o.
on_chat_reply(f, o) ==
  LET req == f.posts[1]
      call == f.calls[Len(f.calls)]
      g == [f EXCEPT !.net = @ \ {req.url}, !.replies = Append(@, o)]
  IN IF o.exc # ""
     THEN inference_return(g, inference_except(o, call.timeout))
     ELSE IF is_not_found(o.status)
     THEN LET fallback == generate_request(model_name, call.prompt, call.timeout)
          IN [g EXCEPT !.pc = "generate", !.response = <<o>>,
                       !.net = @ \cup {fallback.url},
                       !.posts = Append(@, fallback)]
     ELSE inference_return([g EXCEPT !.response = <<o>>],
                           inference_finish(o, req, model_name))

\* requests.post(.../api/generate) ends with outcome o.
on_generate_reply(f, o) ==
  LET req == f.posts[2]
      call == f.calls[Len(f.calls)]
      g == [f EXCEPT !.net = @ \ {req.url}, !.replies = Append(@, o)]
  IN IF o.exc # ""
     THEN inference_return(g, inference_except(o, call.timeout))
     ELSE inference_return([g EXCEPT !.response = <<o>>],
                           inference_finish(o, req, model_name))

(***************************************************************************)
(* Inputs                                                                  *)
(***************************************************************************)
Letters == <<"a", "b", "c", "d", "e", "f", "g", "h", "i", "j">>
Terminators == <<".", "!", "?">>

\* k sentences of SentenceChars letters, each closed by a terminator and
\* separated from the next by a space.
RECURSIVE Prose(_)
Prose(k) ==
  IF k = 0 THEN <<>>
  ELSE Join(<<>>, <<Prose(k - 1),
                    Run(" ", IF k > 1 THEN 1 ELSE 0),
                    Run(Letters[k], SentenceChars),
                    Run(Terminators[((k - 1) % 3) + 1], 1)>>)

\* Prose, and a text without any terminator at the threshold and just over it.
Texts ==
  {Prose(k) : k \in 1..MaxSentences}
    \cup {Run("a", FaqThreshold), Run("a", FaqThreshold + 1)}

Alphabet == {"a", " ", ".", "!", "?"}
SmallTexts ==
  {FromChars(cs) : cs \in UNION {[1..n -> Alphabet] : n \in 0..MaxLen}}

(***************************************************************************)
(* The entry points against the model server                               *)
(***************************************************************************)
Init ==
  /\ op \in {"summary", "faq"}
  /\ text \in Texts
  /\ num_questions \in (IF op = "faq" THEN MinQuestions..MaxQuestions ELSE {5})
  /\ summary_length \in (IF op = "summary" THEN DOMAIN length_instructions
                                           ELSE {"medium"})
  /\ model_name = Lit("llama3")
  /\ max_chars = 0
  /\ chunked = <<>>
  /\ run = [r \in Runs |-> Frame(r = "sink")]

\* The page calls generate_summary, which runs to where inference first
\* waits.
Summarize ==
  /\ op = "summary"
  /\ \A r \in Runs : run[r].pc = "start"
  /\ run' = [r \in Runs |-> generate_summary(run[r])]
  /\ UNCHANGED inputs

\* The page calls generate_faq, which calls generate_faq_smart; it runs to
\* where inference first waits.
GenerateFAQ ==
  /\ op = "faq"
  /\ \A r \in Runs : run[r].pc = "start"
  /\ run' = [r \in Runs |-> generate_faq_smart(run[r])]
  /\ UNCHANGED inputs

\* A time.sleep of show_processing_steps is over.
ProcessingStep ==
  /\ \E r \in Runs : run[r].pc = "steps"
  /\ run' = [r \in Runs |-> IF run[r].pc = "steps"
                            THEN on_sleep_over(run[r]) ELSE run[r]]
  /\ UNCHANGED inputs

\* The POST to /api/chat ends; every run blocked in it sees the same
\* outcome.  The two runs are compared on the same answers, so the answer
\* is given once the run that displays its steps has sent the request too.
ChatReply ==
  /\ \E r \in Runs : run[r].pc = "chat"
  /\ \A r \in Runs : run[r].pc # "steps"
  /\ \E o \in Outcomes :
       run' = [r \in Runs |-> IF run[r].pc = "chat"
                              THEN on_chat_reply(run[r], o) ELSE run[r]]
  /\ UNCHANGED inputs

\* The POST to /api/generate ends.
GenerateReply ==
  /\ \E r \in Runs : run[r].pc = "generate"
  /\ \E o \in Outcomes :
       run' = [r \in Runs |-> IF run[r].pc = "generate"
                              THEN on_generate_reply(run[r], o) ELSE run[r]]
  /\ UNCHANGED inputs

Next == Summarize \/ GenerateFAQ \/ ProcessingStep \/ ChatReply \/ GenerateReply

Spec == Init /\ [][Next]_vars

(***************************************************************************)
(* chunk_text alone, on every small text                                   *)
(***************************************************************************)
InitChunk ==
  /\ op = "chunk"
  /\ text \in SmallTexts
  /\ num_questions = 5
  /\ summary_length = "medium"
  /\ model_name = Lit("llama3")
  /\ max_chars \in 1..MaxChunkChars
  /\ chunked = <<>>
  /\ run = [r \in Runs |-> Frame(r = "sink")]

ChunkText ==
  /\ op = "chunk"
  /\ chunked = <<>>
  /\ chunked' = <<chunk_text(text, max_chars)>>
  /\ UNCHANGED <<op, text, num_questions, summary_length, model_name,
                 max_chars, run>>

NextChunk == ChunkText

SpecChunk == InitChunk /\ [][NextChunk]_vars

(***************************************************************************)
(* The entry points and chunk_text alone, in one specification             *)
(***************************************************************************)
InitAll == Init \/ InitChunk

NextAll == Next \/ NextChunk

SpecAll == InitAll /\ [][NextAll]_vars

(***************************************************************************)
(* Properties                                                              *)
(***************************************************************************)
\* The str t occurs in the str p (t lies on run boundaries of p, as a text
\* between two literals of a prompt does).
Contains(p, t) ==
  \E a \in 0..(Len(p) - Len(t)) : SubSeq(p, a + 1, a + Len(t)) = t

\* The values the finished calls of inference returned, in order.
Returned(f) == [k \in 1..Len(f.rets) |-> f.rets[k].value]

\* No finished call returned a string that opens with the cross mark.
AllSucceeded(f) == \A k \in 1..Len(f.rets) : ~StartsWith(f.rets[k].value, CrossMark)

\* C1: in the chunked path of generate_faq_smart, once the call of inference
\* for a chunk has failed (returned from an except clause), that call is the
\* last one: generate_faq_smart has returned, what it returned is that
\* failure's message and nothing of the earlier outputs, and no request for a
\* later chunk is sent.
C1_ChunkFailureAborts ==
  \A r \in Runs :
    LET f == run[r] IN
      f.path = "chunked" =>
        \A k \in 1..Len(f.rets) :
          f.rets[k].failure =>
            /\ k = Len(f.rets)
            /\ Len(f.calls) = k
            /\ f.pc = "done"
            /\ f.net = {}
            /\ f.result = f.rets[k].value

\* C1 witness: the third or a later chunk failed after earlier chunks had
\* succeeded, and chunks are left over.
C1_Witness ==
  \E r \in Runs :
    LET f == run[r] IN
      /\ f.path = "chunked" /\ f.pc = "done"
      /\ Len(f.rets) >= 2 /\ f.rets[Len(f.rets)].failure
      /\ Len(f.all_faqs) = Len(f.rets) - 1
      /\ Len(f.chunks) > Len(f.rets)

\* C2: generate_faq_smart with len(text) <= 3000 makes exactly one call of
\* inference.  With len(text) > 3000 it chunks the text with max_chars 2500
\* and calls inference chunk by chunk: the k-th call carries the k-th chunk,
\* a call is made only when every earlier one has returned (never two
\* requests unanswered), and when no call returned an error every chunk has
\* had its call and the result is the outputs joined in chunk order by a
\* blank line (cut at the length limit).
C2_OneCallPerChunkInOrder ==
  \A r \in Runs :
    LET f == run[r] IN
      (op = "faq" /\ f.pc # "start") =>
        /\ Cardinality(f.net) <= 1
        /\ Len(f.calls) =
             Len(f.rets) + (IF f.pc = "steps" THEN 1 ELSE Cardinality(f.net))
        /\ IF StrLen(text) <= FaqThreshold
           THEN f.path = "single" /\ Len(f.calls) = 1
           ELSE /\ f.path = "chunked"
                /\ f.chunks = chunk_text(text, FaqChunkChars)
                /\ Len(f.calls) <= Len(f.chunks)
                /\ \A k \in 1..Len(f.calls) :
                     Contains(f.calls[k].prompt, f.chunks[k])
                /\ (f.pc = "done" /\ AllSucceeded(f)) =>
                     /\ Len(f.calls) = Len(f.chunks)
                     /\ f.result =
                          Take(Join(FromChars(<<"\n", "\n">>), Returned(f)),
                               StrLen(f.result))

\* C2 witness: three chunks or more, all answered, with different outputs.
C2_Witness ==
  \E r \in Runs :
    LET f == run[r] IN
      /\ f.path = "chunked" /\ f.pc = "done" /\ AllSucceeded(f)
      /\ Len(f.calls) >= 3
      /\ f.rets[1].value # f.rets[2].value
      /\ f.rets[1].value # <<>> /\ f.rets[2].value # <<>>

\* C3 as stated: whatever the text, the question count and the answers of
\* the server, what generate_faq_smart returns has at most 10,000 characters.
C3_Original_AlwaysLimited ==
  \A r \in Runs :
    (op = "faq" /\ run[r].pc = "done") => StrLen(run[r].result) <= MaxFaqChars

\* C3 amended: in the chunked path, when every chunk call succeeded, what is
\* returned is the combined output cut to its first 10,000 characters (so
\* at most 10,000 long); in the single-call path the answer of the one call
\* is returned as it is, whatever its length.
C3_CombinedLimited ==
  \A r \in Runs :
    LET f == run[r]
        combined == Join(FromChars(<<"\n", "\n">>), Returned(f))
    IN (op = "faq" /\ f.pc = "done") =>
         /\ (f.path = "chunked" /\ AllSucceeded(f)) =>
              /\ StrLen(f.result) <= MaxFaqChars
              /\ StrLen(f.result) = Min(StrLen(combined), MaxFaqChars)
              /\ f.result = Take(combined, MaxFaqChars)
         /\ f.path = "single" => f.result = f.rets[1].value

\* C3 witness: a combined output of more than 10,000 characters was cut.
C3_Witness ==
  \E r \in Runs :
    LET f == run[r] IN
      /\ f.path = "chunked" /\ f.pc = "done" /\ AllSucceeded(f)
      /\ StrLen(Join(FromChars(<<"\n", "\n">>), Returned(f))) > MaxFaqChars
      /\ StrLen(f.result) = MaxFaqChars

\* The outcome was a response with a 2xx status.
Is2xx(o) == o.exc = "" /\ 200 <= o.status /\ o.status < 300

\* The body parses and holds what inference reads from it.
Readable(o) == o.body.shape \notin {"invalid", "chat_notdict"}

\* C4: inside a call of inference, a 404 answer to the POST to /api/chat is
\* followed by exactly one POST to /api/generate with the same model and
\* the same prompt, and any other outcome of the chat POST by none.  After
\* the fallback the call returns what the /api/generate outcome gives: the
\* payload of a readable 2xx response, and a failure only when the fallback
\* itself raised, had a status outside 2xx or had an unreadable body; the
\* 404 of the chat POST is never what is reported.
C4_FallbackOnce ==
  \A r \in Runs :
    LET f == run[r] IN
      f.posts # <<>> =>
        /\ Len(f.posts) <= 2
        /\ f.posts[1].url = Cat(MODEL_SERVER_URL, Lit("/api/chat"))
        /\ f.posts[1].json.messages[1].content = f.calls[Len(f.calls)].prompt
        /\ Len(f.posts) = 2 <=>
             (f.replies # <<>> /\ f.replies[1].exc = "" /\ f.replies[1].status = 404)
        /\ Len(f.posts) = 2 =>
             /\ f.posts[2].url = Cat(MODEL_SERVER_URL, Lit("/api/generate"))
             /\ f.posts[2].json.model = f.posts[1].json.model
             /\ f.posts[2].json.prompt = f.posts[1].json.messages[1].content
             /\ f.posts[2].timeout = f.posts[1].timeout
        /\ Len(f.replies) = 2 =>
             LET g == f.replies[2]
                 ret == f.rets[Len(f.rets)]
             IN /\ (Is2xx(g) /\ Readable(g)) => ret = Ret(g.body.text, FALSE)
                /\ ret.failure =>
                     (g.exc # "" \/ ~Is2xx(g) \/ ~Readable(g))
                /\ (g.exc = "" /\ g.status # 404) =>
                     ret.value # error_model_not_found(model_name)
                /\ f.path # "chunked" => f.result = ret.value

\* C4 witness: the chat POST got 404, the generate POST got 200 with a
\* payload, and that payload is the result.
C4_Witness ==
  \E r \in Runs :
    LET f == run[r] IN
      /\ f.pc = "done" /\ Len(f.posts) = 2 /\ Len(f.replies) = 2
      /\ f.replies[1].status = 404
      /\ f.replies[2] = Replied(200, Lit("OK"), Body("generate", ShortPayload))
      /\ f.result = ShortPayload

\* The chunks chunk_text returned when called alone.
Chunks == chunked[1]

\* The chunk c holds one sentence of the text, of n characters or more, and
\* the period added to it.
SingleSentenceOfAtLeast(c, n) ==
  \E k \in 1..Len(sentences_of(text)) :
    /\ c = Strip(Cat(sentences_of(text)[k], Lit(".")))
    /\ StrLen(sentences_of(text)[k]) >= n

\* C5 as stated: no chunk is longer than max_chars, except a chunk made of a
\* single sentence that is itself longer than max_chars.
C5_Original_LongerSentence ==
  chunked # <<>> =>
    \A j \in 1..Len(Chunks) :
      \/ StrLen(Chunks[j]) <= max_chars
      \/ SingleSentenceOfAtLeast(Chunks[j], max_chars + 1)

\* C5 amended: no chunk is longer than max_chars, except a chunk made of a
\* single sentence of max_chars characters or more (with the period added
\* to it, such a sentence is longer than max_chars).
C5_ChunkBound ==
  chunked # <<>> =>
    \A j \in 1..Len(Chunks) :
      \/ StrLen(Chunks[j]) <= max_chars
      \/ SingleSentenceOfAtLeast(Chunks[j], max_chars)

\* C5 witness: several chunks, one of them longer than max_chars and one
\* holding two sentences within max_chars.
C5_Witness ==
  /\ chunked # <<>>
  /\ Len(Chunks) >= 2
  /\ \E j \in 1..Len(Chunks) : StrLen(Chunks[j]) > max_chars
  /\ \E j \in 1..Len(Chunks) :
       StrLen(Chunks[j]) <= max_chars /\ Len(Split(Chunks[j], ".")) >= 3

\* The sentences of one chunk: split on '.', the empty piece after the last
\* added period dropped.
SentencesIn(c) == SubSeq(Split(c, "."), 1, Len(Split(c, ".")) - 1)

\* The sentences of the chunks cs, in chunk order.
RECURSIVE Rebuilt(_)
Rebuilt(cs) ==
  IF cs = <<>> THEN <<>> ELSE SentencesIn(cs[1]) \o Rebuilt(Tail(cs))

\* The places, in the rebuilt sequence, of the first sentence of each chunk.
ChunkStarts(cs) ==
  {Len(Rebuilt(SubSeq(cs, 1, j - 1))) + 1 : j \in 1..Len(cs)}

\* C6 as stated: for a text longer than max_chars the sentences of the
\* chunks, in chunk order, are exactly the sentences of the normalized text.
C6_Original_ExactSentences ==
  (chunked # <<>> /\ StrLen(text) > max_chars) =>
    Rebuilt(Chunks) = sentences_of(text)

\* C6 amended: for a text longer than max_chars the sentences of the chunks,
\* in chunk order, are the sentences of the normalized text, as many and in
\* the same order, none dropped and none twice, each one unchanged except
\* that the first sentence of a chunk has lost its leading whitespace.
C6_SentencesKept ==
  (chunked # <<>> /\ StrLen(text) > max_chars) =>
    LET rebuilt == Rebuilt(Chunks)
        sentences == sentences_of(text)
        starts == ChunkStarts(Chunks)
    IN /\ Len(rebuilt) = Len(sentences)
       /\ \A k \in 1..Len(sentences) :
            IF k \in starts
            THEN rebuilt[k] = LStrip(sentences[k])
            ELSE rebuilt[k] = sentences[k]

\* C6 witness: three sentences or more in two chunks or more, the first
\* sentence of a chunk having lost a leading space.
C6_Witness ==
  /\ chunked # <<>> /\ StrLen(text) > max_chars
  /\ Len(Chunks) >= 2
  /\ Len(sentences_of(text)) >= 3
  /\ Rebuilt(Chunks) # sentences_of(text)

\* C7: in the chunked path the number of Q/A pairs asked for is
\* max(2, floor(num_questions / number of chunks)), and the prompt of every
\* chunk asks for that same number.
C7_QuestionsPerChunk ==
  \A r \in Runs :
    LET f == run[r]
        q == num_questions \div Len(f.chunks)
        n == IF q > 2 THEN q ELSE 2
    IN f.path = "chunked" =>
         /\ f.questions_per_chunk = n
         /\ \A k \in 1..Len(f.calls) :
              f.calls[k].prompt = faq_section_prompt(n, f.chunks[k])

\* C7 witness: all of two or more chunks called, the division leaving a
\* remainder and a quotient above 2.
C7_Witness ==
  \E r \in Runs :
    LET f == run[r] IN
      /\ f.path = "chunked"
      /\ Len(f.chunks) >= 2 /\ Len(f.calls) = Len(f.chunks)
      /\ num_questions % Len(f.chunks) # 0
      /\ num_questions \div Len(f.chunks) > 2

\* C8 as stated: every failure of a call of inference is returned as a
\* string that opens with the cross mark, and is classified: connection
\* refused -> server not running; timeout -> timed out after N seconds, N
\* the timeout of the call; 404 from the fallback -> model not found; any
\* other status outside 2xx, or a body that cannot be read -> the generic
\* error with the detail.
C8_FailureClassification ==
  \A r \in Runs :
    LET f == run[r] IN
      (f.pc = "done" /\ f.path # "chunked") =>
        LET o == f.replies[Len(f.replies)]
            ret == f.rets[Len(f.rets)]
            call == f.calls[Len(f.calls)]
        IN /\ ret.failure => StartsWith(ret.value, CrossMark)
           /\ o.exc = "ConnectionError" => ret.value = error_not_running
           /\ o.exc \in Timeouts => ret.value = error_timed_out(call.timeout)
           /\ (o.exc = "" /\ o.status = 404) =>
                ret.value = error_model_not_found(model_name)
           /\ (o.exc = "" /\ ~Is2xx(o) /\ o.status # 404) =>
                /\ ret.failure
                /\ Len(ret.value) >= 2
                /\ SubSeq(ret.value, 1, 2) =
                     Cat(Run(CrossMark, 1), Lit(" Error: "))
           /\ (Is2xx(o) /\ ~Readable(o)) =>
                /\ ret.failure
                /\ Len(ret.value) >= 2
                /\ SubSeq(ret.value, 1, 2) =
                     Cat(Run(CrossMark, 1), Lit(" Error: "))

\* C9: the run with a progress sink and the run without one, given the same
\* request and the same outcomes of the POSTs, have made the same calls of
\* inference and have the same results; apart from the time the run with a
\* sink spends displaying its steps, during which it has yet to send the
\* request the other run has sent, they are at the same place and have
\* sent the same requests; the run without a sink tells nothing, and in the
\* run with a sink every call of inference was announced to the sink
\* before its request was sent.
C9_SinkChangesNothing ==
  LET a == run["sink"]
      b == run["no_sink"]
  IN /\ a.calls = b.calls
     /\ a.rets = b.rets
     /\ a.result = b.result
     /\ IF a.pc = "steps"
        THEN /\ b.pc = "chat"
             /\ a.posts = <<>>
             /\ inference_post(a).posts = b.posts
        ELSE /\ a.pc = b.pc
             /\ a.posts = b.posts
     /\ b.sink_log = <<>>
     /\ \A k \in 1..Len(a.calls) :
          \E j \in 1..Len(a.sink_log) :
            /\ a.sink_log[j].call = k
            /\ a.sink_log[j].event \in {"info", steps[1]}
     /\ (a.posts # <<>> /\ a.path # "chunked") =>
          [j \in 1..Len(a.sink_log) |-> a.sink_log[j].event] = steps

\* C9 witness: both runs have returned from the chunked path after two
\* calls or more, and the sink was told of each.
C9_Witness ==
  /\ run["sink"].pc = "done" /\ run["no_sink"].pc = "done"
  /\ run["sink"].path = "chunked"
  /\ Len(run["no_sink"].calls) >= 2
  /\ Len(run["sink"].sink_log) >= 3

\* C10: generate_summary makes exactly one call of inference whatever the
\* length of the text, and the prompt of that call, which is what is sent,
\* holds the length instruction of the requested class ("in 2-3 sentences"
\* for "short") and the whole input text.
C10_SummaryOneCall ==
  \A r \in Runs :
    LET f == run[r] IN
      (op = "summary" /\ f.pc # "start") =>
        /\ Len(f.calls) = 1
        /\ f.path = "summary"
        /\ Contains(f.calls[1].prompt, Lit(length_instructions[summary_length]))
        /\ summary_length = "short" =>
             Contains(f.calls[1].prompt, Lit("in 2-3 sentences"))
        /\ Contains(f.calls[1].prompt, text)
        /\ f.pc # "steps" =>
             /\ Len(f.posts) >= 1
             /\ f.posts[1].json.messages[1].content = f.calls[1].prompt

\* C10 witness: a short summary of a text over the FAQ threshold has
\* returned.
C10_Witness ==
  \E r \in Runs :
    /\ op = "summary" /\ summary_length = "short"
    /\ StrLen(text) > FaqThreshold
    /\ run[r].pc = "done" /\ Len(run[r].calls) = 1

\* C11: in the chunked path of generate_faq_smart the output of a chunk's
\* call is taken as a failure exactly when it starts with the cross mark,
\* whether inference returned it from an except clause or from the payload
\* of a successful answer.  An output that does not start with the mark
\* (even one with the mark further in) is kept as the section of its chunk,
\* so no kept section starts with the mark; an output that starts with the
\* mark is the last one: the loop is left, no request is pending, and
\* generate_faq_smart returns that output unchanged.
C11_MarkerDecidesFailure ==
  \A r \in Runs :
    LET f == run[r] IN
      f.path = "chunked" =>
        /\ \A j \in 1..Len(f.all_faqs) : ~StartsWith(f.all_faqs[j], CrossMark)
        /\ \A k \in 1..Len(f.rets) :
             IF StartsWith(f.rets[k].value, CrossMark)
             THEN /\ k = Len(f.rets)
                  /\ Len(f.calls) = k
                  /\ Len(f.all_faqs) = k - 1
                  /\ f.pc = "done"
                  /\ f.net = {}
                  /\ f.result = f.rets[k].value
             ELSE /\ Len(f.all_faqs) >= k
                  /\ f.all_faqs[k] = f.rets[k].value

\* C11 witness: the first chunk's call succeeded with a payload that has the
\* mark inside, which was kept; a later call succeeded (200, no except
\* clause) with a payload that starts with the mark, and that payload is the
\* result while chunks are left over.
C11_Witness ==
  \E r \in Runs :
    LET f == run[r]
        n == Len(f.rets)
    IN /\ f.path = "chunked" /\ f.pc = "done"
       /\ n >= 2 /\ Len(f.chunks) > n
       /\ f.all_faqs[1] = InnerMarkedPayload
       /\ ~f.rets[n].failure
       /\ f.replies[Len(f.replies)].status = 200
       /\ f.rets[n].value = MarkedPayload
       /\ f.result = MarkedPayload

\* C12 as stated: chunk_text returns at least one chunk and no chunk it
\* returns is the empty string, whatever the text; so in the chunked path of
\* generate_faq_smart there is at least one chunk, num_questions is divided
\* by a count that is not zero, and at least one call of inference is made.
C12_Original_NoEmptyChunk ==
  /\ chunked # <<>> =>
       /\ Len(Chunks) >= 1
       /\ \A j \in 1..Len(Chunks) : StrLen(Chunks[j]) > 0
  /\ \A r \in Runs :
       LET f == run[r] IN
         f.path = "chunked" =>
           /\ Len(f.chunks) >= 1
           /\ \A j \in 1..Len(f.chunks) : StrLen(f.chunks[j]) > 0
           /\ f.questions_per_chunk =
                Max(MinQuestionsPerChunk, num_questions \div Len(f.chunks))
           /\ Len(f.calls) >= 1
           /\ Len(f.posts) >= 1

\* C12 amended: chunk_text returns at least one chunk, and a chunk it
\* returns is the empty string only when the text itself is empty (the
\* empty text comes back as the one chunk "").  In the chunked path of
\* generate_faq_smart the text is longer than 3000 characters, so there is
\* at least one chunk, none is empty, num_questions is divided by a count
\* that is not zero, and at least one call of inference is made.
C12_ChunksNonEmpty ==
  /\ chunked # <<>> =>
       /\ Len(Chunks) >= 1
       /\ \A j \in 1..Len(Chunks) :
            StrLen(Chunks[j]) = 0 => (StrLen(text) = 0 /\ Len(Chunks) = 1)
  /\ \A r \in Runs :
       LET f == run[r] IN
         f.path = "chunked" =>
           /\ StrLen(text) > FaqThreshold
           /\ Len(f.chunks) >= 1
           /\ \A j \in 1..Len(f.chunks) : StrLen(f.chunks[j]) > 0
           /\ f.questions_per_chunk =
                Max(MinQuestionsPerChunk, num_questions \div Len(f.chunks))
           /\ Len(f.calls) >= 1
           /\ Len(f.posts) >= 1

\* C12 witness: chunk_text has split a text longer than max_chars that
\* opens with a sentence too long for a chunk and holds a sentence of
\* nothing but blanks, and every chunk it returned is non-empty.
C12_Witness ==
  /\ chunked # <<>>
  /\ StrLen(text) > max_chars
  /\ StrLen(sentences_of(text)[1]) >= max_chars
  /\ \E k \in 1..Len(sentences_of(text)) :
       /\ StrLen(sentences_of(text)[k]) > 0
       /\ Strip(sentences_of(text)[k]) = <<>>
  /\ Len(Chunks) >= 2
  /\ \A j \in 1..Len(Chunks) : StrLen(Chunks[j]) > 0

====
